---- MODULE Spec2Model ----
(***************************************************************************)
(* Model of the Kubernetes inventory collector (src/collector.py) and of   *)
(* its entry point (src/run_inventory.py).                                 *)
(*                                                                         *)
(* Encoding of Python values:                                              *)
(*   - a string is a "text": a sequence of atoms.  The atoms "," "\"" "\n" *)
(*     "\r" and " " are the characters the csv module and str.strip treat  *)
(*     specially; every other atom is an opaque run of ordinary characters.*)
(*   - an optional sub-object (node.status, pod.spec, ...) is <<>> when it *)
(*     is None and <<obj>> when it is present.                             *)
(*   - a dict value is tagged: NoneV, S(text), N(int), L(list of texts).   *)
(*   - a dict is a sequence of <<key, value>> pairs in insertion order.    *)
(***************************************************************************)
EXTENDS Integers, Sequences, FiniteSets, TLC

VARIABLES
    pc,                 \* position of the running call chain
    include_processes,  \* args.include_processes
    cluster,            \* the control plane's pods: slot -> <<>> or <<pod>>
    changes,            \* number of cluster changes made by the environment
    broken,             \* containers whose exec channel fails permanently
    v1_core,            \* self.v1_core
    cfgLog,             \* credential sources tried by _connect, with outcome
    nodes,              \* main's local `nodes`
    pods,               \* main's local `pods`
    containers,         \* main's local `containers`
    processes,          \* main's local `processes`
    done,               \* collection steps that returned to main
    listCalls,          \* list_node / list_pod_for_all_namespaces calls made
    listed,             \* outcome and items of the most recent list call
    cap,                \* locals of collect_all_processes
    cp,                 \* locals of collect_processes
    execCalls,          \* remote-exec channels opened so far
    calls,              \* direct collect_processes calls made so far
    ret,                \* value returned by the last collect_processes call
    data,               \* the aggregate handed to export_csv
    files,              \* files written by export_csv: <<name, text>> pairs
    exportCalled,       \* export_csv was invoked
    exc,                \* the exception that unwound to main's handlers
    branch,             \* which except clause of main ran
    guidance,           \* the credential guidance was printed
    exit_status         \* process exit status, NotExited while running

vars == <<pc, include_processes, cluster, changes, broken, v1_core, cfgLog,
          nodes, pods, containers, processes, done, listCalls, listed, cap, cp,
          execCalls, calls, ret, data, files, exportCalled, exc, branch,
          guidance, exit_status>>

----------------------------------------------------------------------------
(* Bounds of the model.                                                     *)

MaxPods == 2
MaxContainers == 2
MaxNodes == 1
MaxChanges == 1
MaxCalls == 2
MaxRecords == 2

----------------------------------------------------------------------------
(* Python values.                                                           *)

NL == "\n"
CR == "\r"
QUOTE == "\""
COMMA == ","
SP == " "

None == <<>>
Some(x) == <<x>>
Truthy(o) == o # <<>>
Get(o) == o[1]

NoneV == [t |-> "none"]
S(txt) == [t |-> "str", s |-> txt]
N(i) == [t |-> "int", n |-> i]
L(xs) == [t |-> "list", l |-> xs]
T(str) == <<str>>
\* `x if cond else None` over a text-valued attribute
OptS(o) == IF Truthy(o) THEN S(Get(o)) ELSE NoneV

NotExited == 0 - 1

RECURSIVE SeqsUpTo(_, _)
SeqsUpTo(A, n) ==
    IF n = 0 THEN {<<>>}
    ELSE LET shorter == SeqsUpTo(A, n - 1)
         IN shorter \cup {Append(s, a) : s \in {x \in shorter : Len(x) = n - 1}, a \in A}

RECURSIVE Concat(_)
Concat(ss) == IF ss = <<>> THEN <<>> ELSE Head(ss) \o Concat(Tail(ss))

----------------------------------------------------------------------------
(* Objects returned by the control plane.                                   *)

PodName(i) == T(IF i = 1 THEN "pod-1" ELSE IF i = 2 THEN "pod-2" ELSE "pod-3")
ContainerNames == <<"c1", "c2", "c3">>
Phases == {"Running", "Succeeded"}

ContainerObj(k) == [name |-> T(ContainerNames[k]), image |-> T("img")]
RECURSIVE ContainerList(_)
ContainerList(n) ==
    IF n = 0 THEN <<>> ELSE Append(ContainerList(n - 1), ContainerObj(n))

\* V1PodSpec: containers may be empty; node_name is None for an unscheduled
\* pod (here: the pod that declares no container)
PodSpecs ==
    {[node_name |-> IF n = 0 THEN None ELSE Some(T("node-1")),
      service_account_name |-> Some(T("default")),
      containers |-> ContainerList(n)] : n \in 0..MaxContainers}

\* V1PodStatus: phase may itself be None
PodStatuses ==
    {[phase |-> None, pod_ip |-> None]}
    \cup {[phase |-> Some(T(p)), pod_ip |-> Some(T("10.0.0.1"))] : p \in Phases}

OptOf(A) == {None} \cup {Some(a) : a \in A}

PodObjs(i) ==
    {[name |-> PodName(i), namespace |-> T("ns"), uid |-> T("uid"),
      spec |-> sp, status |-> st] : sp \in OptOf(PodSpecs), st \in OptOf(PodStatuses)}

Slots == 1..MaxPods
Clusters == {c \in [Slots -> UNION {OptOf(PodObjs(i)) : i \in Slots}] :
                \A i \in Slots : c[i] \in OptOf(PodObjs(i))}

\* the items of list_pod_for_all_namespaces(): the pods present, in slot order
RECURSIVE ItemsFrom(_, _)
ItemsFrom(c, i) ==
    IF i > MaxPods THEN <<>> ELSE c[i] \o ItemsFrom(c, i + 1)
PodItems(c) == ItemsFrom(c, 1)

NodeInfos == {[kubelet_version |-> T("v1.30"), os_image |-> T("linux"),
               container_runtime_version |-> T("containerd")]}
\* V1Node: status, status.node_info and metadata.creation_timestamp may each
\* be None (the node without node_info is also the one without timestamp)
NodeObjs ==
    {[name |-> T("node-1"), uid |-> T("nuid"),
      creation_timestamp |-> IF st = Some([node_info |-> None])
                             THEN None ELSE Some("datetime(2024,1,1)"),
      status |-> st] : st \in OptOf({[node_info |-> ni] : ni \in OptOf(NodeInfos)})}
NodeLists == SeqsUpTo(NodeObjs, MaxNodes)

----------------------------------------------------------------------------
(* Results of calls: a returned value or a raised exception.                *)

\* an exception: its class and the exception it was built from (its cause)
Exc(type, cause) == [type |-> type, cause |-> cause]
NoExc == Exc("none", "none")

Ok(v) == [raised |-> NoExc, value |-> v]
Err(e) == [raised |-> e, value |-> <<>>]

ListOutcomes == {"ok", "ApiException", "OtherError"}

----------------------------------------------------------------------------
(* Normalisation of API objects to flat records (dicts).                    *)

\* datetime.isoformat()
IsoFormat(dt) == IF dt = "datetime(2024,1,1)" THEN T("2024-01-01T00:00:00") ELSE T(dt)

\* evaluating node.status.node_info raises AttributeError when status is None
NodeRaises(node) == ~Truthy(node.status)

NodeRecord(node) ==
    LET info == Get(node.status).node_info
    IN << <<"name", S(node.name)>>,
          <<"uid", S(node.uid)>>,
          <<"creation_timestamp",
            IF Truthy(node.creation_timestamp)
            THEN S(IsoFormat(Get(node.creation_timestamp))) ELSE NoneV>>,
          <<"kubernetes_version",
            IF Truthy(info) THEN S(Get(info).kubelet_version) ELSE NoneV>>,
          <<"os_image", IF Truthy(info) THEN S(Get(info).os_image) ELSE NoneV>>,
          <<"container_runtime",
            IF Truthy(info) THEN S(Get(info).container_runtime_version) ELSE NoneV>> >>

\* the except clause of the list methods: only ApiException is wrapped
WrapListError(t) ==
    IF t = "ApiException" THEN Exc("RuntimeError", t) ELSE Exc(t, "none")

collect_nodes(outcome, items) ==
    IF outcome # "ok" THEN Err(WrapListError(outcome))
    ELSE IF \E i \in 1..Len(items) : NodeRaises(items[i])
         THEN Err(WrapListError("AttributeError"))
         ELSE Ok([i \in 1..Len(items) |-> NodeRecord(items[i])])

PodRecord(pod) ==
    << <<"name", S(pod.name)>>,
       <<"namespace", S(pod.namespace)>>,
       <<"uid", S(pod.uid)>>,
       <<"node_name", IF Truthy(pod.spec) THEN OptS(Get(pod.spec).node_name) ELSE NoneV>>,
       <<"service_account",
         IF Truthy(pod.spec) THEN OptS(Get(pod.spec).service_account_name) ELSE NoneV>>,
       <<"status", IF Truthy(pod.status) THEN OptS(Get(pod.status).phase) ELSE NoneV>>,
       <<"pod_ip", IF Truthy(pod.status) THEN OptS(Get(pod.status).pod_ip) ELSE NoneV>> >>

\* a collect_pods that answers a failed listing with no pods
collect_podsSwallow(outcome, items) ==
    IF outcome # "ok" THEN Ok(<<>>)
    ELSE Ok([i \in 1..Len(items) |-> PodRecord(items[i])])

collect_pods(outcome, items) ==
    IF outcome # "ok" THEN Err(WrapListError(outcome))
    ELSE Ok([i \in 1..Len(items) |-> PodRecord(items[i])])

\* `not pod.spec or not pod.spec.containers`
NoContainers(pod) == ~Truthy(pod.spec) \/ Get(pod.spec).containers = <<>>

ContainerRecord(pod, c) ==
    << <<"name", S(c.name)>>,
       <<"image", S(c.image)>>,
       <<"pod_name", S(pod.name)>>,
       <<"namespace", S(pod.namespace)>>,
       <<"node_name", IF Truthy(pod.spec) THEN OptS(Get(pod.spec).node_name) ELSE NoneV>> >>

PodContainerRecords(pod) ==
    IF NoContainers(pod) THEN <<>>
    ELSE LET cs == Get(pod.spec).containers
         IN [k \in 1..Len(cs) |-> ContainerRecord(pod, cs[k])]

collect_containers(outcome, items) ==
    IF outcome # "ok" THEN Err(WrapListError(outcome))
    ELSE Ok(Concat([i \in 1..Len(items) |-> PodContainerRecords(items[i])]))

----------------------------------------------------------------------------
(* Parsing of the captured `ps aux` output (collect_processes).             *)

\* str.split("\n"): the pieces between newline atoms, always at least one
RECURSIVE SplitNL(_, _)
SplitNL(txt, cur) ==
    IF txt = <<>> THEN <<cur>>
    ELSE IF Head(txt) = NL THEN <<cur>> \o SplitNL(Tail(txt), <<>>)
    ELSE SplitNL(Tail(txt), Append(cur, Head(txt)))

IsSpace(a) == a \in {SP, NL, CR}

RECURSIVE LStrip(_)
LStrip(txt) ==
    IF txt # <<>> /\ IsSpace(Head(txt)) THEN LStrip(Tail(txt)) ELSE txt

RECURSIVE RStrip(_)
RStrip(txt) ==
    IF txt # <<>> /\ IsSpace(txt[Len(txt)])
    THEN RStrip(SubSeq(txt, 1, Len(txt) - 1)) ELSE txt

\* str.strip()
Strip(txt) == RStrip(LStrip(txt))

NonBlank(line) == Strip(line) # <<>>

\* [line.strip() for line in resp.split("\n") if line.strip()]
ParsePs(resp) ==
    LET kept == SelectSeq(SplitNL(resp, <<>>), NonBlank)
    IN [i \in 1..Len(kept) |-> Strip(kept[i])]

\* texts a container's `ps aux` may answer with
ExecTexts ==
    { <<>>,
      <<SP, NL, NL>>,
      <<"PID CMD", SP, NL, SP, "1 sh", NL>> }

ExecOutcomes == {"ok", "ApiException", "OtherError", "hang"}

----------------------------------------------------------------------------
(* KubernetesInventoryCollector._connect                                    *)

CfgOutcomes == {"ok", "ConfigException", "OtherError"}

\* a _connect whose inner except clause catches every exception
FallsBackOnAny(ic) == ic # "ok"

\* only config.ConfigException from the in-cluster source reaches the fallback
FallsBack(ic) == ic = "ConfigException"

\* ic, kc: what load_incluster_config / load_kube_config would do;
\* api: what client.CoreV1Api() would do.  The log lists the calls made.
_connect(ic, kc, api) ==
    LET cfg == IF FallsBack(ic)
               THEN << <<"incluster", ic>>, <<"kubeconfig", kc>> >>
               ELSE << <<"incluster", ic>> >>
        loaded == cfg[Len(cfg)][2] = "ok"
        log == IF loaded THEN Append(cfg, <<"CoreV1Api", api>>) ELSE cfg
        last == log[Len(log)][2]
    IN [log |-> log,
        handle |-> IF last = "ok" THEN Some("CoreV1Api") ELSE None,
        raised |-> IF last = "ok" THEN NoExc
                   ELSE Exc("collector.ConnectionError", last)]

----------------------------------------------------------------------------
(* run_inventory.main: the except clauses.                                  *)

\* run_inventory imports only KubernetesInventoryCollector, so the name
\* ConnectionError in its except clause is the builtin class
BuiltinConnectionErrors ==
    {"ConnectionError", "BrokenPipeError", "ConnectionAbortedError",
     "ConnectionRefusedError", "ConnectionResetError"}

ExceptBranch(e) ==
    IF e.type \in BuiltinConnectionErrors THEN "connection" ELSE "generic"

Raise(e) ==
    /\ exc' = e
    /\ branch' = ExceptBranch(e)
    /\ guidance' = (ExceptBranch(e) = "connection")
    /\ exit_status' = 1
    /\ pc' = "exited"

NoRaise == UNCHANGED <<exc, branch, guidance, exit_status>>

envVars == <<cluster, changes, broken>>
connVars == <<v1_core, cfgLog>>
procVars == <<cap, cp, execCalls, calls, ret>>
outVars == <<files, exportCalled>>

NoCap == [k |-> 0, result |-> <<>>]
NoCp == [caller |-> "none", slot |-> 0, container_name |-> None, pod |-> None,
         read |-> "none", exec |-> "none"]

\* data = {"nodes": nodes, "pods": pods, "containers": containers}
MainData(ns, ps, cs) == << <<"nodes", ns>>, <<"pods", ps>>, <<"containers", cs>> >>

Connect ==
    /\ pc = "start"
    /\ \E ic \in CfgOutcomes, kc \in CfgOutcomes, api \in {"ok", "OtherError"} :
        LET r == _connect(ic, kc, api)
        IN /\ cfgLog' = r.log
           /\ v1_core' = r.handle
           /\ IF r.raised = NoExc THEN pc' = "nodes" /\ NoRaise ELSE Raise(r.raised)
    /\ UNCHANGED <<include_processes, envVars, nodes, pods, containers, processes,
                   done, listCalls, listed, procVars, data, outVars>>

CollectNodes ==
    /\ pc = "nodes"
    /\ \E outcome \in ListOutcomes, items \in NodeLists :
        LET r == collect_nodes(outcome, items)
        IN /\ listed' = [outcome |-> outcome, items |-> IF outcome = "ok" THEN items ELSE <<>>]
           /\ IF r.raised = NoExc
              THEN nodes' = r.value /\ done' = done \cup {"nodes"} /\ pc' = "pods" /\ NoRaise
              ELSE Raise(r.raised) /\ UNCHANGED <<nodes, done>>
    /\ listCalls' = listCalls + 1
    /\ UNCHANGED <<include_processes, envVars, connVars, pods, containers, processes,
                   procVars, data, outVars>>

CollectPods ==
    /\ pc = "pods"
    /\ \E outcome \in ListOutcomes :
        LET items == IF outcome = "ok" THEN PodItems(cluster) ELSE <<>>
            r == collect_pods(outcome, items)
        IN /\ listed' = [outcome |-> outcome, items |-> items]
           /\ IF r.raised = NoExc
              THEN pods' = r.value /\ done' = done \cup {"pods"} /\ pc' = "containers" /\ NoRaise
              ELSE Raise(r.raised) /\ UNCHANGED <<pods, done>>
    /\ listCalls' = listCalls + 1
    /\ UNCHANGED <<include_processes, envVars, connVars, nodes, containers, processes,
                   procVars, data, outVars>>

CollectContainers ==
    /\ pc = "containers"
    /\ \E outcome \in ListOutcomes :
        LET items == IF outcome = "ok" THEN PodItems(cluster) ELSE <<>>
            r == collect_containers(outcome, items)
        IN /\ listed' = [outcome |-> outcome, items |-> items]
           /\ IF r.raised = NoExc
              THEN /\ containers' = r.value
                   /\ done' = done \cup {"containers"}
                   /\ data' = MainData(nodes, pods, r.value)
                   /\ pc' = IF include_processes THEN "proc_list" ELSE "export"
                   /\ NoRaise
              ELSE Raise(r.raised) /\ UNCHANGED <<containers, done, data>>
    /\ listCalls' = listCalls + 1
    /\ UNCHANGED <<include_processes, envVars, connVars, nodes, pods, processes,
                   procVars, outVars>>

----------------------------------------------------------------------------
(* collect_processes and collect_all_processes.                             *)

\* pod.status.phase != "Running", for a status that is present
NotRunning(status) == status.phase # Some(T("Running"))

\* a collect_all_processes without the phase filter of lines 158-159
RECURSIVE CapScanNoPhaseFilter(_, _)
CapScanNoPhaseFilter(items, i) ==
    IF i > Len(items) THEN [work |-> <<>>, crash |-> FALSE]
    ELSE LET pod == items[i]
             rest == CapScanNoPhaseFilter(items, i + 1)
         IN IF NoContainers(pod) THEN rest
            ELSE LET cs == Get(pod.spec).containers
                 IN [work |-> [k \in 1..Len(cs) |-> [pod |-> pod, container |-> cs[k]]]
                              \o rest.work,
                     crash |-> rest.crash]

\* The (pod, container) pairs collect_all_processes visits, in order, over
\* the listed items from index i on.  Evaluating pod.status.phase on a pod
\* whose status is None raises AttributeError: the loop stops there (crash).
RECURSIVE CapScan(_, _)
CapScan(items, i) ==
    IF i > Len(items) THEN [work |-> <<>>, crash |-> FALSE]
    ELSE LET pod == items[i]
         IN IF ~Truthy(pod.status) THEN [work |-> <<>>, crash |-> TRUE]
            ELSE IF NotRunning(Get(pod.status)) \/ NoContainers(pod)
                 THEN CapScan(items, i + 1)
                 ELSE LET cs == Get(pod.spec).containers
                          rest == CapScan(items, i + 1)
                      IN [work |-> [k \in 1..Len(cs) |-> [pod |-> pod, container |-> cs[k]]]
                                   \o rest.work,
                          crash |-> rest.crash]

Snapshot(pod_name, namespace, container_name, lines) ==
    << <<"pod_name", S(pod_name)>>,
       <<"namespace", S(namespace)>>,
       <<"container_name", S(container_name)>>,
       <<"processes", L(lines)>> >>

SlotOf(pod_name) == CHOOSE i \in Slots : PodName(i) = pod_name

\* collect_processes with only its `except ApiException` clause
CPCatchApiOnly(t) == IF t = "ApiException" THEN Ok(<<>>) ELSE Err(Exc(t, "none"))

\* the two except clauses of collect_processes: every exception becomes []
CPCatch(t) == Ok(<<>>)

\* collect_all_processes from work item k on, with `result` built so far:
\* call collect_processes for item k, or leave the loop
CapStep(items, k, result) ==
    LET w == CapScan(items, 1)
    IN /\ cap' = [k |-> k, result |-> result]
       /\ IF k <= Len(w.work)
          THEN /\ cp' = [NoCp EXCEPT !.caller = "all",
                                     !.slot = SlotOf(w.work[k].pod.name),
                                     !.container_name = Some(w.work[k].container.name)]
               /\ pc' = "cp_read"
               /\ NoRaise
               /\ UNCHANGED <<processes, data, done>>
          ELSE /\ cp' = NoCp
               /\ IF w.crash
                  THEN Raise(WrapListError("AttributeError"))
                       /\ UNCHANGED <<processes, data, done>>
                  ELSE /\ processes' = result
                       /\ data' = Append(data, <<"processes", result>>)
                       /\ done' = done \cup {"processes"}
                       /\ pc' = "export"
                       /\ NoRaise

CollectAllProcesses ==
    /\ pc = "proc_list"
    /\ \E outcome \in ListOutcomes :
        LET items == IF outcome = "ok" THEN PodItems(cluster) ELSE <<>>
        IN /\ listed' = [outcome |-> outcome, items |-> items]
           /\ IF outcome = "ok"
              THEN CapStep(items, 1, <<>>)
              ELSE Raise(WrapListError(outcome))
                   /\ UNCHANGED <<cap, cp, processes, data, done>>
    /\ listCalls' = listCalls + 1
    /\ UNCHANGED <<include_processes, envVars, connVars, nodes, pods, containers,
                   execCalls, calls, ret, outVars>>

\* collect_processes returns r (a value or, were it to propagate one, an
\* exception) to its caller: to collect_all_processes, which appends the
\* snapshot and goes on, or to a direct caller
CPReturn(r, cpx) ==
    /\ ret' = r
    /\ IF cpx.caller = "all"
       THEN IF r.raised = NoExc
            THEN LET item == CapScan(listed.items, 1).work[cap.k]
                 IN CapStep(listed.items, cap.k + 1,
                            Append(cap.result,
                                   Snapshot(item.pod.name, item.pod.namespace,
                                            item.container.name, r.value)))
            ELSE /\ Raise(WrapListError(r.raised.type))
                 /\ cp' = cpx
                 /\ UNCHANGED <<cap, processes, data, done>>
       ELSE /\ pc' = "idle"
            /\ cp' = cpx
            /\ NoRaise
            /\ UNCHANGED <<cap, processes, data, done>>

\* collect_processes without the phase check of lines 123-125
AfterReadNoPhaseCheck(pod, cname) ==
    IF NoContainers(pod) THEN [go |-> "return", r |-> Ok(<<>>), cname |-> cname]
    ELSE [go |-> "exec", r |-> Ok(<<>>),
          cname |-> IF ~Truthy(cname) THEN Some(Get(pod.spec).containers[1].name)
                    ELSE cname]

\* Lines 115-125 on the pod the read returned: return [] early, let the
\* AttributeError of `pod.status.phase` be caught, or go on to the exec
AfterRead(pod, cname) ==
    IF NoContainers(pod) THEN [go |-> "return", r |-> Ok(<<>>), cname |-> cname]
    ELSE LET name == IF ~Truthy(cname) THEN Some(Get(pod.spec).containers[1].name)
                     ELSE cname
         IN IF ~Truthy(pod.status)
            THEN [go |-> "return", r |-> CPCatch("AttributeError"), cname |-> name]
            ELSE IF NotRunning(Get(pod.status))
                 THEN [go |-> "return", r |-> Ok(<<>>), cname |-> name]
                 ELSE [go |-> "exec", r |-> Ok(<<>>), cname |-> name]

\* read_namespaced_pod: a pod that is not in the cluster cannot be read
ReadCanSucceed(slot) == slot \in Slots /\ Truthy(cluster[slot])

ReadPod ==
    /\ pc = "cp_read"
    /\ \E outcome \in ListOutcomes :
        /\ outcome = "ok" => ReadCanSucceed(cp.slot)
        /\ IF outcome # "ok"
           THEN CPReturn(CPCatch(outcome), [cp EXCEPT !.read = outcome])
           ELSE LET pod == Get(cluster[cp.slot])
                    a == AfterRead(pod, cp.container_name)
                    cpx == [cp EXCEPT !.read = "ok", !.pod = Some(pod),
                                      !.container_name = a.cname]
                IN IF a.go = "exec"
                   THEN /\ pc' = "cp_exec"
                        /\ cp' = cpx
                        /\ NoRaise
                        /\ UNCHANGED <<cap, ret, processes, data, done>>
                   ELSE CPReturn(a.r, cpx)
    /\ UNCHANGED <<include_processes, envVars, connVars, nodes, pods, containers,
                   listCalls, listed, execCalls, calls, outVars>>

HasContainer(pod, cname) ==
    /\ Truthy(pod.spec)
    /\ \E k \in 1..Len(Get(pod.spec).containers) : Get(pod.spec).containers[k].name = cname

\* the exec can answer only from a declared container of a pod that is
\* still running, and never from a permanently failing container
ExecCanSucceed(cpx) ==
    /\ ReadCanSucceed(cpx.slot)
    /\ LET pod == Get(cluster[cpx.slot])
       IN /\ HasContainer(pod, Get(cpx.container_name))
          /\ Truthy(pod.status)
          /\ ~NotRunning(Get(pod.status))
    /\ <<cpx.slot, Get(cpx.container_name)>> \notin broken

\* stream(connect_get_namespaced_pod_exec, ...): no timeout is passed, so a
\* channel that never answers blocks the call forever
ExecPs ==
    /\ pc = "cp_exec"
    /\ execCalls' = execCalls + 1
    /\ \E outcome \in ExecOutcomes, resp \in ExecTexts :
        /\ outcome = "ok" => ExecCanSucceed(cp)
        /\ outcome # "ok" => resp = <<>>
        /\ LET cpx == [cp EXCEPT !.exec = outcome]
           IN IF outcome = "hang"
              THEN /\ pc' = "blocked"
                   /\ cp' = cpx
                   /\ NoRaise
                   /\ UNCHANGED <<cap, ret, processes, data, done>>
              ELSE CPReturn(IF outcome = "ok" THEN Ok(ParsePs(resp)) ELSE CPCatch(outcome),
                            cpx)
    /\ UNCHANGED <<include_processes, envVars, connVars, nodes, pods, containers,
                   listCalls, listed, calls, outVars>>

\* a caller invokes collect_processes(pod_name, namespace, container_name)
CallCollectProcesses ==
    /\ pc = "idle"
    /\ calls < MaxCalls
    /\ \E slot \in Slots, cname \in OptOf({ContainerObj(k).name : k \in 1..MaxContainers}) :
        cp' = [NoCp EXCEPT !.caller = "direct", !.slot = slot, !.container_name = cname]
    /\ calls' = calls + 1
    /\ pc' = "cp_read"
    /\ UNCHANGED <<include_processes, envVars, connVars, nodes, pods, containers,
                   processes, done, listCalls, listed, cap, execCalls, ret, data,
                   outVars, exc, branch, guidance, exit_status>>

\* what a pod slot may become in one change: a pod is created, the pod is
\* deleted, or its status is replaced (a phase change)
ChangesOf(i, cur) ==
    IF ~Truthy(cur) THEN {Some(p) : p \in PodObjs(i)}
    ELSE {None} \cup {Some([Get(cur) EXCEPT !.status = st]) :
                          st \in OptOf(PodStatuses) \ {Get(cur).status}}

\* the cluster is live: between two API calls of the run a pod may be
\* created, deleted or change phase
ClusterChange ==
    /\ pc \in {"containers", "proc_list", "cp_read", "cp_exec", "idle"}
    /\ changes < MaxChanges
    /\ \E i \in Slots : \E new \in ChangesOf(i, cluster[i]) :
        cluster' = [cluster EXCEPT ![i] = new]
    /\ changes' = changes + 1
    /\ UNCHANGED <<pc, include_processes, broken, connVars, nodes, pods, containers,
                   processes, done, listCalls, listed, procVars, data, outVars,
                   exc, branch, guidance, exit_status>>

----------------------------------------------------------------------------
(* export_csv: the csv module's writer (excel dialect) over flattened rows. *)

RECURSIVE Join(_, _)
Join(xs, sep) ==
    IF xs = <<>> THEN <<>>
    ELSE IF Len(xs) = 1 THEN xs[1]
    ELSE xs[1] \o sep \o Join(Tail(xs), sep)

Digits == <<"0", "1", "2", "3", "4", "5", "6", "7", "8", "9">>

\* str(n) for n >= 0
RECURSIVE IntText(_)
IntText(n) ==
    IF n < 10 THEN <<Digits[n + 1]>> ELSE Append(IntText(n \div 10), Digits[(n % 10) + 1])

\* item.get(field)
DictGet(d, key) ==
    IF \E i \in 1..Len(d) : d[i][1] = key
    THEN d[CHOOSE i \in 1..Len(d) : d[i][1] = key][2]
    ELSE NoneV

\* dict.keys(): the keys in insertion order
Keys(d) == [i \in 1..Len(d) |-> d[i][1]]

\* lines 202-203: a list becomes its elements joined by a newline
Flatten(v) == IF v.t = "list" THEN S(Join(v.l, <<NL>>)) ELSE v

\* the text the writer emits for a value: '' for None, str(value) otherwise
FieldText(v) ==
    IF v.t = "none" THEN <<>>
    ELSE IF v.t = "int" THEN IntText(v.n)
    ELSE v.s

\* QUOTE_MINIMAL: quote a field holding the delimiter, the quote character
\* or a line break
NeedsQuote(txt) == \E i \in 1..Len(txt) : txt[i] \in {COMMA, QUOTE, NL, CR}

RECURSIVE DoubleQuotes(_)
DoubleQuotes(txt) ==
    IF txt = <<>> THEN <<>>
    ELSE (IF Head(txt) = QUOTE THEN <<QUOTE, QUOTE>> ELSE <<Head(txt)>>)
         \o DoubleQuotes(Tail(txt))

\* a writer that quotes without doubling the embedded quote characters
WriteFieldNoDoubling(txt) ==
    IF NeedsQuote(txt) THEN <<QUOTE>> \o txt \o <<QUOTE>> ELSE txt

WriteField(txt) ==
    IF NeedsQuote(txt) THEN <<QUOTE>> \o DoubleQuotes(txt) \o <<QUOTE>> ELSE txt

\* writer.writerow: the fields joined by commas and ended by "\r\n"; a row
\* of one empty field is written as a pair of quotes
WriteRow(fields) ==
    IF Len(fields) = 1 /\ fields[1] = <<>> THEN <<QUOTE, QUOTE, CR, NL>>
    ELSE Join([i \in 1..Len(fields) |-> WriteField(fields[i])], <<COMMA>>) \o <<CR, NL>>

\* fieldnames = items[0].keys()
FieldNames(items) == Keys(items[1])

\* lines 199-205: the row of one item, in header order
RowOf(item, fieldnames) ==
    [j \in 1..Len(fieldnames) |-> FieldText(Flatten(DictGet(item, fieldnames[j])))]

\* the text of one category's file: header row, then one row per item
CsvText(items) ==
    LET fieldnames == FieldNames(items)
    IN WriteRow([j \in 1..Len(fieldnames) |-> T(fieldnames[j])])
       \o Concat([i \in 1..Len(items) |-> WriteRow(RowOf(items[i], fieldnames))])

\* one file per category that has items, in the order of data.items()
RECURSIVE ExportFiles(_)
ExportFiles(d) ==
    IF d = <<>> THEN <<>>
    ELSE (IF d[1][2] = <<>> THEN <<>>
          ELSE << [name |-> d[1][1], text |-> CsvText(d[1][2])] >>)
         \o ExportFiles(Tail(d))

IOOutcomes == {"ok", "OSError"}

\* main's call of export_csv and the end of main; io is what os.makedirs does
ExportCsv ==
    /\ pc = "export"
    /\ exportCalled' = TRUE
    /\ \E io \in IOOutcomes :
        IF io = "ok"
        THEN /\ files' = ExportFiles(data)
             /\ pc' = "exited"
             /\ exit_status' = 0
             /\ UNCHANGED <<exc, branch, guidance>>
        ELSE /\ files' = files
             /\ Raise(Exc(io, "none"))
    /\ UNCHANGED <<include_processes, envVars, connVars, nodes, pods, containers,
                   processes, done, listCalls, listed, procVars, data>>

----------------------------------------------------------------------------
(* Specifications.                                                          *)

EmptyCluster == [i \in Slots |-> None]

InitCommon ==
    /\ changes = 0
    /\ nodes = <<>>
    /\ pods = <<>>
    /\ containers = <<>>
    /\ processes = <<>>
    /\ done = {}
    /\ listCalls = 0
    /\ listed = [outcome |-> "none", items |-> <<>>]
    /\ cap = NoCap
    /\ cp = NoCp
    /\ execCalls = 0
    /\ calls = 0
    /\ ret = Ok(<<>>)
    /\ files = <<>>
    /\ exportCalled = FALSE
    /\ exc = NoExc
    /\ branch = "none"
    /\ guidance = FALSE
    /\ exit_status = NotExited

\* one run of run_inventory.main against a live cluster
Init ==
    /\ pc = "start"
    /\ include_processes \in BOOLEAN
    /\ cluster \in Clusters
    /\ broken = {}
    /\ v1_core = None
    /\ cfgLog = <<>>
    /\ data = <<>>
    /\ InitCommon

Next ==
    \/ Connect
    \/ CollectNodes
    \/ CollectPods
    \/ CollectContainers
    \/ CollectAllProcesses
    \/ ReadPod
    \/ ExecPs
    \/ ExportCsv
    \/ ClusterChange

Spec == Init /\ [][Next]_vars

\* collect_processes called directly, on a connected collector, for any pod
\* name and any container argument, against a live cluster in which one
\* container may be permanently failing
BrokenSets ==
    {{}} \cup {{<<i, ContainerObj(k).name>>} : i \in Slots, k \in 1..MaxContainers}

ProcInit ==
    /\ pc = "idle"
    /\ include_processes = FALSE
    /\ cluster \in Clusters
    /\ broken \in BrokenSets
    /\ v1_core = Some("CoreV1Api")
    /\ cfgLog = << <<"incluster", "ok">>, <<"CoreV1Api", "ok">> >>
    /\ data = <<>>
    /\ InitCommon

ProcNext ==
    \/ CallCollectProcesses
    \/ ReadPod
    \/ ExecPs
    \/ ClusterChange

ProcSpec == ProcInit /\ [][ProcNext]_vars

\* export_csv called on any aggregate of two categories: "a" holds any record
\* set over the keys and values below, "b" one record with a list field
ExportKeys == {"a", "b"}
ExportValues ==
    {NoneV, S(<<"x">>), S(<<QUOTE, COMMA>>), N(12), L(<< <<"p">>, <<"q">> >>)}

\* the dicts over ExportKeys: every subset of the keys in every insertion order
ExportDicts ==
    {<<>>}
    \cup {<< <<k, v>> >> : k \in ExportKeys, v \in ExportValues}
    \cup {d \in {<< <<k1, v1>>, <<k2, v2>> >> :
                    k1 \in ExportKeys, k2 \in ExportKeys,
                    v1 \in ExportValues, v2 \in ExportValues} : d[1][1] # d[2][1]}

TagsRecord == << <<"name", S(<<"x">>)>>, <<"tags", L(<< <<"a">>, <<"b">> >>)>> >>

ExportInit ==
    /\ pc = "export"
    /\ include_processes = FALSE
    /\ cluster = EmptyCluster
    /\ broken = {}
    /\ v1_core = Some("CoreV1Api")
    /\ cfgLog = << <<"incluster", "ok">>, <<"CoreV1Api", "ok">> >>
    /\ \E items \in SeqsUpTo(ExportDicts, MaxRecords) :
        data = << <<"a", items>>, <<"b", <<TagsRecord>> >> >>
    /\ InitCommon

ExportNext == ExportCsv

ExportSpec == ExportInit /\ [][ExportNext]_vars

----------------------------------------------------------------------------
(* Reading a written file back: the csv module's reader (excel dialect).    *)

\* The reader's state machine over the text of a file, one atom at a time.
\* st: "start_record", "after_cr", "start_field", "in_field", "in_quoted",
\* "quote_in_quoted"; field, row: the field and the record being read.
RECURSIVE ReadCsv(_, _, _, _, _)
ReadCsv(txt, st, field, row, rows) ==
    IF txt = <<>>
    THEN IF st \in {"start_record", "after_cr"} THEN rows
         ELSE Append(rows, Append(row, field))
    ELSE LET c == Head(txt)
             rest == Tail(txt)
             eol == IF c = CR THEN "after_cr" ELSE "start_record"
         IN IF st = "after_cr"
            THEN IF c = NL THEN ReadCsv(rest, "start_record", <<>>, <<>>, rows)
                 ELSE ReadCsv(txt, "start_record", <<>>, <<>>, rows)
            ELSE IF st = "start_record"
            THEN IF c \in {CR, NL} THEN ReadCsv(rest, eol, <<>>, <<>>, Append(rows, <<>>))
                 ELSE ReadCsv(txt, "start_field", <<>>, <<>>, rows)
            ELSE IF st = "start_field"
            THEN IF c \in {CR, NL}
                 THEN ReadCsv(rest, eol, <<>>, <<>>, Append(rows, Append(row, <<>>)))
                 ELSE IF c = QUOTE THEN ReadCsv(rest, "in_quoted", <<>>, row, rows)
                 ELSE IF c = COMMA THEN ReadCsv(rest, "start_field", <<>>, Append(row, <<>>), rows)
                 ELSE ReadCsv(rest, "in_field", <<c>>, row, rows)
            ELSE IF st = "in_field"
            THEN IF c \in {CR, NL}
                 THEN ReadCsv(rest, eol, <<>>, <<>>, Append(rows, Append(row, field)))
                 ELSE IF c = COMMA
                 THEN ReadCsv(rest, "start_field", <<>>, Append(row, field), rows)
                 ELSE ReadCsv(rest, "in_field", Append(field, c), row, rows)
            ELSE IF st = "in_quoted"
            THEN IF c = QUOTE THEN ReadCsv(rest, "quote_in_quoted", field, row, rows)
                 ELSE ReadCsv(rest, "in_quoted", Append(field, c), row, rows)
            ELSE \* quote_in_quoted
                 IF c = QUOTE THEN ReadCsv(rest, "in_quoted", Append(field, QUOTE), row, rows)
                 ELSE IF c = COMMA
                 THEN ReadCsv(rest, "start_field", <<>>, Append(row, field), rows)
                 ELSE IF c \in {CR, NL}
                 THEN ReadCsv(rest, eol, <<>>, <<>>, Append(rows, Append(row, field)))
                 ELSE ReadCsv(rest, "in_field", Append(field, c), row, rows)

\* list(csv.reader(f)) for a file opened with newline=""
ReadBack(txt) == ReadCsv(txt, "start_record", <<>>, <<>>, <<>>)

\* the items of one category of an aggregate, <<>> when it has none
Category(d, key) ==
    IF \E i \in 1..Len(d) : d[i][1] = key
    THEN d[CHOOSE i \in 1..Len(d) : d[i][1] = key][2]
    ELSE <<>>

FilesNamed(key) == {i \in 1..Len(files) : files[i].name = key}

----------------------------------------------------------------------------
(* Properties.                                                              *)

\* what the claim says a value is written as: a list as its elements joined
\* by a newline, None (or a missing field) as the empty field, anything else
\* as its string form
ExpectedField(item, key) ==
    IF \A i \in 1..Len(item) : item[i][1] # key THEN <<>>
    ELSE LET v == item[CHOOSE i \in 1..Len(item) : item[i][1] = key][2]
         IN IF v.t = "none" THEN <<>>
            ELSE IF v.t = "list" THEN Join(v.l, <<NL>>)
            ELSE IF v.t = "int" THEN IntText(v.n)
            ELSE v.s

\* the rows the claim says the file holds: the first record's field names in
\* insertion order, then one row per record in header order
ExpectedRows(items) ==
    LET first == items[1]
        header == [j \in 1..Len(first) |-> T(first[j][1])]
    IN <<header>> \o [i \in 1..Len(items) |->
                        [j \in 1..Len(first) |-> ExpectedField(items[i], first[j][1])]]

\* C8: after a successful export, every category with at least one record
\* has exactly one file, and reading that file back yields the first
\* record's field names in insertion order followed by one row per record,
\* in input order, with lists joined by a newline, None or missing fields
\* empty and fields outside the header omitted; a category without records
\* has no file.
C8_ExportRoundTrip ==
    (pc = "exited" /\ exit_status = 0) =>
        \A c \in 1..Len(data) :
            LET key == data[c][1]
                items == data[c][2]
            IN IF items = <<>> THEN FilesNamed(key) = {}
               ELSE /\ Cardinality(FilesNamed(key)) = 1
                    /\ \A i \in FilesNamed(key) :
                        ReadBack(files[i].text) = ExpectedRows(items)

\* C8 witness: the header-order case with a second record that lacks one
\* header field, carries a list and a text with a quote and a comma
C8_Witness ==
    /\ pc = "exited"
    /\ exit_status = 0
    /\ Len(files) = 2
    /\ LET items == Category(data, "a")
       IN /\ Len(items) = 2
          /\ Keys(items[1]) = <<"b", "a">>
          /\ items[1][1][2] = L(<< <<"p">>, <<"q">> >>)
          /\ items[1][2][2] = S(<<QUOTE, COMMA>>)
          /\ Keys(items[2]) = <<"a">>

\* the pod a collect_processes call read was Running and declared a container
ReadRunning(c) ==
    /\ c.read = "ok"
    /\ Truthy(c.pod)
    /\ Truthy(Get(c.pod).status)
    /\ Get(Get(c.pod).status).phase = Some(T("Running"))
    /\ ~NoContainers(Get(c.pod))

\* the read or the exec of the collect_processes call failed, or the pod it
\* read had no status
CallFailed(c) ==
    \/ c.read \in {"ApiException", "OtherError"}
    \/ c.exec \in {"ApiException", "OtherError"}
    \/ (c.read = "ok" /\ Truthy(c.pod) /\ ~Truthy(Get(c.pod).status))

\* C2: collect_processes never hands an exception to its caller, whatever
\* its arguments and whatever the pod read and the exec do: every call that
\* returns, returns a sequence, the empty one whenever the read or the exec
\* failed or the pod had no status, and the empty one on every call against
\* a permanently failing container.
C2_NeverPropagates ==
    /\ ret.raised = NoExc
    /\ exc = NoExc
    /\ (pc = "idle" /\ calls > 0) =>
        /\ CallFailed(cp) => ret.value = <<>>
        /\ (Truthy(cp.container_name) /\ <<cp.slot, Get(cp.container_name)>> \in broken)
               => ret.value = <<>>

\* C2 witness: a repeated call whose exec raised a non-API exception against
\* the permanently failing container returned the empty sequence
C2_Witness ==
    /\ pc = "idle"
    /\ calls >= 2
    /\ cp.exec = "OtherError"
    /\ <<cp.slot, Get(cp.container_name)>> \in broken
    /\ ret = Ok(<<>>)

\* C7: an exec channel is opened only after a successful pod read that
\* reported phase "Running" and at least one declared container; a call whose
\* read reported any other phase returns the empty sequence without an exec.
C7_ExecOnlyWhenRunning ==
    /\ (pc = "cp_exec" \/ cp.exec # "none") => ReadRunning(cp)
    /\ (pc = "idle" /\ calls > 0 /\ cp.read = "ok" /\ ~ReadRunning(cp)) =>
        (cp.exec = "none" /\ ret = Ok(<<>>))
    /\ (pc = "idle" /\ calls = 1 /\ ~ReadRunning(cp)) => execCalls = 0

\* C7 witness: a call on a pod read as "Succeeded" returned empty, no exec
C7_Witness ==
    /\ pc = "idle"
    /\ calls = 1
    /\ cp.read = "ok"
    /\ Truthy(Get(cp.pod).status)
    /\ Get(Get(cp.pod).status).phase = Some(T("Succeeded"))
    /\ ~NoContainers(Get(cp.pod))
    /\ ret = Ok(<<>>)
    /\ execCalls = 0

\* C4: export_csv is invoked only after nodes, pods, containers and, when
\* requested, processes were all collected; exit status zero is reached only
\* after export; a failed listing ends the run with status 1, with no call
\* of export_csv and no file written.
C4_NoPartialExport ==
    /\ exportCalled =>
        /\ {"nodes", "pods", "containers"} \subseteq done
        /\ include_processes => "processes" \in done
    /\ exit_status = 0 => (exportCalled /\ pc = "exited")
    /\ listed.outcome \in {"ApiException", "OtherError"} =>
        /\ pc = "exited"
        /\ exit_status = 1
        /\ ~exportCalled
        /\ files = <<>>

\* C4 witness: the bulk pod listing for processes failed after the three
\* mandatory collections had succeeded
C4_Witness ==
    /\ listCalls = 4
    /\ listed.outcome = "ApiException"
    /\ {"nodes", "pods", "containers"} \subseteq done
    /\ Len(pods) > 0
    /\ exit_status = 1
    /\ ~exportCalled

SourceOk(log) == \E i \in 1..Len(log) : log[i][1] # "CoreV1Api" /\ log[i][2] = "ok"
ClientOk(log) == \E i \in 1..Len(log) : log[i] = <<"CoreV1Api", "ok">>
TriedKubeConfig(log) == Len(log) >= 2 /\ log[2][1] = "kubeconfig"
BothSourcesFailed(log) ==
    /\ log[1][2] # "ok"
    /\ TriedKubeConfig(log) => log[2][2] # "ok"

\* C5 as stated: the in-cluster source is tried first; whenever it fails,
\* for any kind of failure, the local configuration file is tried; the
\* handle is usable if either source succeeds and ConnectionError is raised
\* exactly when both sources fail, and then no collection call is made.
C5_FallbackOnAnyFailure ==
    cfgLog # <<>> =>
        /\ cfgLog[1][1] = "incluster"
        /\ cfgLog[1][2] # "ok" => TriedKubeConfig(cfgLog)
        /\ SourceOk(cfgLog) => Truthy(v1_core)
        /\ (exc.type = "collector.ConnectionError")
               <=> (BothSourcesFailed(cfgLog) /\ TriedKubeConfig(cfgLog))
        /\ exc.type = "collector.ConnectionError" => (listCalls = 0 /\ execCalls = 0)

\* C5 amended: the in-cluster source is tried first; the local configuration
\* file is tried exactly when the in-cluster source fails with a
\* ConfigException; the handle is usable exactly when a tried source
\* succeeded and the client was constructed; otherwise ConnectionError is
\* raised, carrying the failure of the last call made, and no collection
\* call is ever made.
C5_FallbackOnConfigException ==
    cfgLog # <<>> =>
        /\ cfgLog[1][1] = "incluster"
        /\ (cfgLog[1][2] = "ConfigException") <=> TriedKubeConfig(cfgLog)
        /\ Truthy(v1_core) <=> (SourceOk(cfgLog) /\ ClientOk(cfgLog))
        /\ (exc.type = "collector.ConnectionError")
               <=> ~(SourceOk(cfgLog) /\ ClientOk(cfgLog))
        /\ exc.type = "collector.ConnectionError" =>
            /\ exc.cause = cfgLog[Len(cfgLog)][2]
            /\ exc.cause # "ok"
            /\ listCalls = 0
            /\ execCalls = 0
            /\ done = {}
            /\ pc = "exited"

\* C5 witness: both sources failed with a ConfigException
C5_Witness ==
    /\ cfgLog = << <<"incluster", "ConfigException">>, <<"kubeconfig", "ConfigException">> >>
    /\ exc = Exc("collector.ConnectionError", "ConfigException")
    /\ v1_core = None
    /\ pc = "exited"

\* C6: the collector's ConnectionError ends in the connection-failure branch,
\* which prints the credential guidance; every other failure ends in the
\* generic branch without it; both end with a non-zero status.
C6_ConnectionBranch ==
    /\ exc.type = "collector.ConnectionError" => (branch = "connection" /\ guidance)
    /\ exc.type \notin {"none", "collector.ConnectionError"} =>
        (branch = "generic" /\ ~guidance)
    /\ exc # NoExc => exit_status = 1

AllNone(rec, keys) == \A k \in keys : DictGet(rec, k) = NoneV

\* C1: whenever a listing succeeds, the collection returns one record per
\* listed object, in which every field that depends on an absent sub-object
\* (node.status, node.status.node_info, the node's creation timestamp,
\* pod.spec, pod.status) is None; it never fails on a missing sub-object.
C1_NormalizesAbsent ==
    /\ (listCalls = 1 /\ listed.outcome = "ok") =>
        /\ "nodes" \in done
        /\ exc.type # "AttributeError"
        /\ Len(nodes) = Len(listed.items)
        /\ \A i \in 1..Len(nodes) :
            LET n == listed.items[i]
            IN /\ ~Truthy(n.creation_timestamp) =>
                      AllNone(nodes[i], {"creation_timestamp"})
               /\ (~Truthy(n.status) \/ ~Truthy(Get(n.status).node_info)) =>
                      AllNone(nodes[i], {"kubernetes_version", "os_image", "container_runtime"})
    /\ (listCalls = 2 /\ listed.outcome = "ok") =>
        /\ "pods" \in done
        /\ exc.type # "AttributeError"
        /\ Len(pods) = Len(listed.items)
        /\ \A i \in 1..Len(pods) :
            LET p == listed.items[i]
            IN /\ ~Truthy(p.spec) => AllNone(pods[i], {"node_name", "service_account"})
               /\ ~Truthy(p.status) => AllNone(pods[i], {"status", "pod_ip"})
    /\ (listCalls = 3 /\ listed.outcome = "ok") =>
        /\ "containers" \in done
        /\ exc.type # "AttributeError"

\* the (pod, container) pairs the claim expects a snapshot for: the declared
\* containers of the listed pods whose phase is "Running", in listing order;
\* none for a pod without status, phase, spec or containers
RECURSIVE ExpectedPairs(_)
ExpectedPairs(items) ==
    IF items = <<>> THEN <<>>
    ELSE LET pod == Head(items)
             running == /\ Truthy(pod.status)
                        /\ Get(pod.status).phase = Some(T("Running"))
             cs == IF Truthy(pod.spec) THEN Get(pod.spec).containers ELSE <<>>
         IN (IF running THEN [k \in 1..Len(cs) |-> <<pod.namespace, pod.name, cs[k].name>>]
             ELSE <<>>)
            \o ExpectedPairs(Tail(items))

\* C3: whenever the bulk pod listing succeeded and collect_all_processes is
\* over, it has returned exactly one snapshot per (pod, declared container)
\* of the listed Running pods, in listing order, and none for any other pod,
\* each snapshot carrying a (possibly empty) sequence of lines.
C3_OneSnapshotPerContainer ==
    (listCalls = 4 /\ listed.outcome = "ok" /\ pc \in {"export", "exited"}) =>
        /\ "processes" \in done
        /\ Len(processes) = Len(ExpectedPairs(listed.items))
        /\ \A k \in 1..Len(processes) :
            /\ << DictGet(processes[k], "namespace").s,
                  DictGet(processes[k], "pod_name").s,
                  DictGet(processes[k], "container_name").s >>
                   = ExpectedPairs(listed.items)[k]
            /\ DictGet(processes[k], "processes").t = "list"

\* C9: every exec call is bounded by a timeout: a call whose channel never
\* answers does not leave the run blocked in it, it returns like any other
\* per-container failure, with the empty process list.
C9_ExecBounded == cp.exec = "hang" => (pc # "blocked" /\ ret = Ok(<<>>))

PodKeys(ps) == {<<DictGet(ps[i], "namespace"), DictGet(ps[i], "name")>> : i \in 1..Len(ps)}
RunningPodKeys(ps) ==
    {<<DictGet(ps[i], "namespace"), DictGet(ps[i], "name")>> :
        i \in {j \in 1..Len(ps) : DictGet(ps[j], "status") = S(T("Running"))}}

\* every ContainerRecord and ProcessSnapshot of the aggregate names a pod
\* that has a PodRecord in it, a "Running" one for a ProcessSnapshot
Consistent(d) ==
    LET ps == Category(d, "pods")
        cs == Category(d, "containers")
        prs == Category(d, "processes")
    IN /\ \A i \in 1..Len(cs) :
            <<DictGet(cs[i], "namespace"), DictGet(cs[i], "pod_name")>> \in PodKeys(ps)
       /\ \A i \in 1..Len(prs) :
            <<DictGet(prs[i], "namespace"), DictGet(prs[i], "pod_name")>> \in RunningPodKeys(ps)

\* C10 as stated: the aggregate handed to the exporter is consistent even
\* when pods are created, deleted or change phase during the run.
C10_SnapshotConsistent == pc = "export" => Consistent(data)

\* C10 amended: when no pod is created, deleted or changes phase between the
\* run's pod listing and its later API calls, the aggregate handed to the
\* exporter is consistent.
C10_ConsistentWhenQuiescent == (pc = "export" /\ changes = 0) => Consistent(data)

\* C10 witness: a quiescent run with processes requested, over two pods of
\* which only one is Running, reached the export
C10_Witness ==
    /\ pc = "export"
    /\ changes = 0
    /\ include_processes
    /\ Len(pods) = 2
    /\ Len(processes) >= 1
    /\ Len(containers) > Len(processes)

====
